---------------------------- MODULE Spec2Model ----------------------------
(***************************************************************************)
(* The recommendation engine of src/utils/recommendations.py:              *)
(* get_recommendations and its three scorers, over a read-only snapshot    *)
(* of the profiles, cvs, internships, users and applications tables.       *)
(*                                                                         *)
(* Text is a tuple of one-character strings, so that split, strip, lower   *)
(* and the substring test are computed and not assumed.  A similarity is   *)
(* an IEEE-754 double, held as exponent and 53-bit significand (two limbs) *)
(* so that `/', `+' and `>' round and compare as CPython's floats do.      *)
(***************************************************************************)
EXTENDS Integers, Sequences, FiniteSets, TLC

(***************************************************************************)
(* Floats.  A positive double is [e, hi, lo] with value                    *)
(*   (hi * 2^27 + lo) * 2^(e - 53),  2^25 <= hi < 2^26,  0 <= lo < 2^27,   *)
(* and zero is [e |-> 0, hi |-> 0, lo |-> 0].                              *)
(***************************************************************************)
HiRadix == 2^26
LoRadix == 2^27

Zero == [e |-> 0, hi |-> 0, lo |-> 0]

IsZero(x) == x.hi = 0

\* the next double above x (x > 0)
NextUp(x) ==
    IF x.lo + 1 < LoRadix THEN [x EXCEPT !.lo = x.lo + 1]
    ELSE IF x.hi + 1 < HiRadix THEN [x EXCEPT !.hi = x.hi + 1, !.lo = 0]
    ELSE [e |-> x.e + 1, hi |-> HiRadix \div 2, lo |-> 0]

\* the least k with i * 2^k >= u (0 < i <= u)
RECURSIVE Normalise(_, _)
Normalise(i, u) == IF i >= u THEN 0 ELSE 1 + Normalise(2 * i, u)

\* i / u for integers 0 <= i <= u, 0 < u < 2^17: the double nearest the
\* quotient, ties to even.  The quotient's 53 binary digits come by long
\* division: the leading 1, then 12, 13, 13 and 14 digits at a time.
float_div(i, u) ==
    IF i = 0 THEN Zero
    ELSE LET k  == Normalise(i, u)
             r0 == i * 2^k - u
             d1 == (r0 * 2^12) \div u
             r1 == (r0 * 2^12) % u
             d2 == (r1 * 2^13) \div u
             r2 == (r1 * 2^13) % u
             d3 == (r2 * 2^13) \div u
             r3 == (r2 * 2^13) % u
             d4 == (r3 * 2^14) \div u
             r4 == (r3 * 2^14) % u
             x  == [e  |-> 1 - k,
                    hi |-> 2^25 + d1 * 2^13 + d2,
                    lo |-> d3 * 2^14 + d4]
             up == 2 * r4 > u \/ (2 * r4 = u /\ d4 % 2 = 1)
         IN  IF up THEN NextUp(x) ELSE x

\* a + b for doubles a.e >= b.e > -inf, both positive, a.e - b.e <= 26
AddAligned(a, b) ==
    LET d    == a.e - b.e
        p    == 2^d
        bhi  == b.hi \div p
        blo  == (b.hi % p) * (LoRadix \div p) + (b.lo \div p)
        drop == b.lo % p                      \* in units of 1/p
        slo  == a.lo + blo
        lo   == slo % LoRadix
        hi   == a.hi + bhi + (slo \div LoRadix)
    IN  IF hi < HiRadix
        THEN LET x  == [e |-> a.e, hi |-> hi, lo |-> lo]
                 up == 2 * drop > p \/ (2 * drop = p /\ lo % 2 = 1)
             IN  IF up THEN NextUp(x) ELSE x
        ELSE LET x    == [e  |-> a.e + 1, hi |-> hi \div 2,
                          lo |-> (hi % 2) * (LoRadix \div 2) + (lo \div 2)]
                 rest == (lo % 2) * p + drop  \* in units of 1/(2p)
                 up   == rest > p \/ (rest = p /\ x.lo % 2 = 1)
             IN  IF up THEN NextUp(x) ELSE x

\* a + b, rounded to nearest, ties to even
float_add(a, b) ==
    IF IsZero(a) THEN b
    ELSE IF IsZero(b) THEN a
    ELSE IF a.e >= b.e THEN AddAligned(a, b) ELSE AddAligned(b, a)

\* a > b
float_gt(a, b) ==
    IF IsZero(a) THEN FALSE
    ELSE IF IsZero(b) THEN TRUE
    ELSE \/ a.e > b.e
         \/ a.e = b.e /\ a.hi > b.hi
         \/ a.e = b.e /\ a.hi = b.hi /\ a.lo > b.lo

(***************************************************************************)
(* Text.  A str is a tuple of one-character strings; None is the SQL NULL  *)
(* a column may hold.                                                      *)
(***************************************************************************)
None == <<"None">>

\* Python truth of a nullable text column: neither None nor ''
Truthy(v) == v # None /\ v # <<>>

UpperCase ==
    <<"A","B","C","D","E","F","G","H","I","J","K","L","M",
      "N","O","P","Q","R","S","T","U","V","W","X","Y","Z">>
LowerCase ==
    <<"a","b","c","d","e","f","g","h","i","j","k","l","m",
      "n","o","p","q","r","s","t","u","v","w","x","y","z">>

Whitespace == {" ", "\t", "\n", "\r"}

\* str.lower()
lower(s) ==
    [i \in 1..Len(s) |->
        IF \E k \in 1..26 : UpperCase[k] = s[i]
        THEN LowerCase[CHOOSE k \in 1..26 : UpperCase[k] = s[i]]
        ELSE s[i]]

\* str.strip()
strip(s) ==
    LET ink == {i \in 1..Len(s) : s[i] \notin Whitespace}
    IN  IF ink = {} THEN <<>>
        ELSE SubSeq(s, CHOOSE i \in ink : \A j \in ink : i <= j,
                       CHOOSE i \in ink : \A j \in ink : i >= j)

\* str.split(','): the pieces between the commas, empty pieces kept
RECURSIVE split(_)
split(s) ==
    LET commas == {i \in 1..Len(s) : s[i] = ","}
    IN  IF commas = {} THEN <<s>>
        ELSE LET i == CHOOSE c \in commas : \A d \in commas : c <= d
             IN  <<SubSeq(s, 1, i - 1)>> \o split(SubSeq(s, i + 1, Len(s)))

\* sub in text
Contains(sub, text) ==
    \E i \in 0..(Len(text) - Len(sub)) : SubSeq(text, i + 1, i + Len(sub)) = sub

Range(f) == {f[i] : i \in DOMAIN f}

\* a slice that keeps the whole list
take_all(s, n) == s

\* s[:n]
Take(s, n) == SubSeq(s, 1, IF Len(s) < n THEN Len(s) ELSE n)

\* set(skill.strip().lower() for skill in text.split(','))
skill_set(text) == {lower(strip(t)) : t \in Range(split(text))}

(***************************************************************************)
(* The snapshot: the tables the engine reads.                              *)
(*   profiles      user id -> [skills]                 (at most one row)   *)
(*   cvs           user id -> [certifications, work_experience, projects,  *)
(*                             education]              (at most one row)   *)
(*   users         user id -> [name, role]                                 *)
(*   internships   the rows of SELECT * FROM internships, in row order     *)
(*   applications  the rows of SELECT student_id, internship_id FROM       *)
(*                 applications, in row order                              *)
(* and the engine's last call: its argument (0 before the first call), the *)
(* three scorers' lists and the list returned.                             *)
(***************************************************************************)
VARIABLES profiles, cvs, users, internships, applications,
          user_id, content_recs, cv_recs, collab_recs, all_recs

snapshot == <<profiles, cvs, users, internships, applications>>
vars == <<profiles, cvs, users, internships, applications,
          user_id, content_recs, cv_recs, collab_recs, all_recs>>

\* SELECT name FROM users WHERE id=?  ->  company['name'] if company else ...
company_name(company_id) ==
    IF company_id \in DOMAIN users THEN users[company_id].name
    ELSE "Unknown Company"

\* required_skills of one internship row
required_skills(internship) ==
    IF Truthy(internship.required_skills)
    THEN skill_set(internship.required_skills) ELSE {}

\* intersection / union if union > 0 else 0
jaccard(a, b) ==
    IF Cardinality(a \cup b) > 0
    THEN float_div(Cardinality(a \cap b), Cardinality(a \cup b)) ELSE Zero

\* list.sort(key=lambda x: x['similarity'], reverse=True): x goes behind
\* every element already placed that is not smaller (the sort is stable)
insert_desc(sorted, x) ==
    LET k == Cardinality({i \in 1..Len(sorted) :
                            ~float_gt(x.similarity, sorted[i].similarity)})
    IN  SubSeq(sorted, 1, k) \o <<x>> \o SubSeq(sorted, k + 1, Len(sorted))

RECURSIVE sort_desc(_)
sort_desc(recs) ==
    IF recs = <<>> THEN <<>>
    ELSE insert_desc(sort_desc(SubSeq(recs, 1, Len(recs) - 1)), recs[Len(recs)])

\* the fields every recommendation copies from the internship row
base_rec(internship, similarity, type) ==
    [id              |-> internship.id,
     title           |-> internship.title,
     description     |-> internship.description,
     required_skills |-> internship.required_skills,
     posted_at       |-> internship.posted_at,
     company_name    |-> company_name(internship.company_id),
     company_id      |-> internship.company_id,
     similarity      |-> similarity,
     type            |-> type]

(***************************************************************************)
(* content_based_recommendations                                           *)
(***************************************************************************)
\* the literal 0.2
content_threshold == float_div(1, 5)

\* a loop that keeps a similarity equal to the threshold (>= for >)
RECURSIVE content_loop_ge(_, _)
content_loop_ge(student_skills, n) ==
    IF n = 0 THEN <<>>
    ELSE LET rest       == content_loop_ge(student_skills, n - 1)
             internship == internships[n]
             required   == required_skills(internship)
             similarity == jaccard(student_skills, required)
         IN  IF required = {} THEN rest
             ELSE IF ~float_gt(content_threshold, similarity)
             THEN Append(rest, base_rec(internship, similarity, "Content-based"))
             ELSE rest

\* recommendations after the loop over the first n internships
RECURSIVE content_loop(_, _)
content_loop(student_skills, n) ==
    IF n = 0 THEN <<>>
    ELSE LET rest       == content_loop(student_skills, n - 1)
             internship == internships[n]
             required   == required_skills(internship)
             similarity == jaccard(student_skills, required)
         IN  IF required = {} THEN rest
             ELSE IF float_gt(similarity, content_threshold)
             THEN Append(rest, base_rec(internship, similarity, "Content-based"))
             ELSE rest

content_based_recommendations(u) ==
    IF u \notin DOMAIN profiles \/ ~Truthy(profiles[u].skills) THEN <<>>
    ELSE Take(sort_desc(content_loop(skill_set(profiles[u].skills),
                                     Len(internships))), 5)

(***************************************************************************)
(* cv_based_recommendations                                                *)
(***************************************************************************)
tech_skills ==
    << <<"p","y","t","h","o","n">>,
       <<"j","a","v","a">>,
       <<"j","a","v","a","s","c","r","i","p","t">>,
       <<"r","e","a","c","t">>,
       <<"n","o","d","e">>,
       <<"s","q","l">>,
       <<"h","t","m","l">>,
       <<"c","s","s">>,
       <<"f","l","a","s","k">>,
       <<"d","j","a","n","g","o">>,
       <<"m","a","c","h","i","n","e"," ","l","e","a","r","n","i","n","g">>,
       <<"d","a","t","a"," ","s","c","i","e","n","c","e">>,
       <<"w","e","b"," ","d","e","v","e","l","o","p","m","e","n","t">>,
       <<"m","o","b","i","l","e"," ","d","e","v","e","l","o","p","m","e","n","t">>,
       <<"c","l","o","u","d">>,
       <<"a","w","s">>,
       <<"a","z","u","r","e">>,
       <<"g","i","t">>,
       <<"d","o","c","k","e","r">> >>

degrees ==
    { <<"b","a","c","h","e","l","o","r">>,
      <<"m","a","s","t","e","r">>,
      <<"p","h","d">>,
      <<"d","e","g","r","e","e">> }

keywords ==
    { <<"i","n","t","e","r","n">>,
      <<"d","e","v","e","l","o","p","e","r">>,
      <<"p","r","o","g","r","a","m","m","e","r">>,
      <<"a","n","a","l","y","s","t">> }

\* the skills found in one text field of the cv
field_skills(text) ==
    IF Truthy(text)
    THEN {skill \in Range(tech_skills) : Contains(skill, lower(text))}
    ELSE {}

cv_skills(cv) ==
    field_skills(cv.certifications) \cup field_skills(cv.work_experience)
        \cup field_skills(cv.projects)

\* the literals 0.1 and 0.15
bonus == float_div(1, 10)
cv_threshold == float_div(3, 20)

skill_similarity(skills, required) ==
    IF skills # {} THEN jaccard(skills, required) ELSE Zero

education_bonus(cv, internship) ==
    IF /\ Truthy(cv.education) /\ Truthy(internship.description)
       /\ \E degree \in degrees : Contains(degree, lower(cv.education))
    THEN bonus ELSE Zero

experience_bonus(cv, internship) ==
    IF /\ Truthy(cv.work_experience) /\ Truthy(internship.description)
       /\ \E keyword \in keywords : Contains(keyword, lower(cv.work_experience))
    THEN bonus ELSE Zero

\* skill_similarity + education_bonus + experience_bonus, left to right
total_similarity(skill, education, experience) ==
    float_add(float_add(skill, education), experience)

cv_rec(internship, skill, education, experience) ==
    [id               |-> internship.id,
     title            |-> internship.title,
     description      |-> internship.description,
     required_skills  |-> internship.required_skills,
     posted_at        |-> internship.posted_at,
     company_name     |-> company_name(internship.company_id),
     company_id       |-> internship.company_id,
     similarity       |-> total_similarity(skill, education, experience),
     type             |-> "CV-based",
     skill_match      |-> skill,
     education_bonus  |-> education,
     experience_bonus |-> experience]

\* recommendations after the loop over the first n internships
RECURSIVE cv_loop(_, _, _)
cv_loop(cv, skills, n) ==
    IF n = 0 THEN <<>>
    ELSE LET rest       == cv_loop(cv, skills, n - 1)
             internship == internships[n]
             required   == required_skills(internship)
             skill      == skill_similarity(skills, required)
             education  == education_bonus(cv, internship)
             experience == experience_bonus(cv, internship)
         IN  IF required = {} THEN rest
             ELSE IF float_gt(total_similarity(skill, education, experience),
                              cv_threshold)
             THEN Append(rest, cv_rec(internship, skill, education, experience))
             ELSE rest

cv_based_recommendations(u) ==
    IF u \notin DOMAIN cvs THEN <<>>
    ELSE Take(sort_desc(cv_loop(cvs[u], cv_skills(cvs[u]), Len(internships))), 5)

(***************************************************************************)
(* collaborative_filtering                                                 *)
(***************************************************************************)
\* the keys of user_items, in the order the dict received them
RECURSIVE user_items_keys(_)
user_items_keys(n) ==
    IF n = 0 THEN <<>>
    ELSE LET keys == user_items_keys(n - 1)
             s    == applications[n].student_id
         IN  IF s \in Range(keys) THEN keys ELSE Append(keys, s)

\* user_items.get(student_id, set())
user_items(student_id) ==
    {applications[i].internship_id :
        i \in {j \in DOMAIN applications : applications[j].student_id = student_id}}

\* a loop that keeps every other student (no `if similarity > 0')
RECURSIVE similar_loop_all(_, _, _)
similar_loop_all(u, keys, n) ==
    IF n = 0 THEN <<>>
    ELSE LET rest       == similar_loop_all(u, keys, n - 1)
             student_id == keys[n]
             similarity == jaccard(user_items(u), user_items(student_id))
         IN  IF student_id = u THEN rest
             ELSE Append(rest, [student_id |-> student_id,
                                similarity |-> similarity])

\* similar_students after the loop over the first n keys of user_items
RECURSIVE similar_loop(_, _, _)
similar_loop(u, keys, n) ==
    IF n = 0 THEN <<>>
    ELSE LET rest       == similar_loop(u, keys, n - 1)
             student_id == keys[n]
             similarity == jaccard(user_items(u), user_items(student_id))
         IN  IF student_id = u THEN rest
             ELSE IF float_gt(similarity, Zero)
             THEN Append(rest, [student_id |-> student_id,
                                similarity |-> similarity])
             ELSE rest

similar_students(u) ==
    LET keys == user_items_keys(Len(applications))
    IN  sort_desc(similar_loop(u, keys, Len(keys)))

\* SELECT * FROM internships WHERE id=?  (fetchone)
fetch_internship(internship_id) ==
    LET rows == {i \in DOMAIN internships : internships[i].id = internship_id}
    IN  IF rows = {} THEN <<>>
        ELSE <<internships[CHOOSE i \in rows : \A j \in rows : i <= j]>>

\* the orders in which `for internship_id in user_items[student_id]' may
\* visit a set: Python fixes no iteration order for a set
RECURSIVE iteration_orders(_)
iteration_orders(items) ==
    IF items = {} THEN {<<>>}
    ELSE UNION {{<<first>> \o rest : rest \in iteration_orders(items \ {first})} :
                  first \in items}

\* an inner loop that never consults seen_internships
RECURSIVE walk_items_unseen(_, _, _)
walk_items_unseen(order, similarity, acc) ==
    IF order = <<>> THEN acc
    ELSE LET internship_id == Head(order)
             found         == fetch_internship(internship_id)
         IN  IF found # <<>>
             THEN walk_items_unseen(Tail(order), similarity,
                    [seen |-> acc.seen \cup {internship_id},
                     recs |-> Append(acc.recs,
                                base_rec(found[1], similarity, "Collaborative"))])
             ELSE walk_items_unseen(Tail(order), similarity, acc)

\* the inner loop over one peer's internships, visited in `order'
RECURSIVE walk_items(_, _, _)
walk_items(order, similarity, acc) ==
    IF order = <<>> THEN acc
    ELSE LET internship_id == Head(order)
             found         == fetch_internship(internship_id)
         IN  IF internship_id \notin acc.seen /\ found # <<>>
             THEN walk_items(Tail(order), similarity,
                    [seen |-> acc.seen \cup {internship_id},
                     recs |-> Append(acc.recs,
                                base_rec(found[1], similarity, "Collaborative"))])
             ELSE walk_items(Tail(order), similarity, acc)

\* the outer loop over similar_students[:3]: every list it may build
RECURSIVE walk_peers(_, _)
walk_peers(peers, acc) ==
    IF peers = <<>> THEN {acc.recs}
    ELSE UNION {walk_peers(Tail(peers),
                           walk_items(order, Head(peers).similarity, acc)) :
                  order \in iteration_orders(user_items(Head(peers).student_id))}

\* every list collaborative_filtering may return
collaborative_filtering(u) ==
    {Take(recs, 5) :
        recs \in walk_peers(Take(similar_students(u), 3),
                            [seen |-> user_items(u), recs |-> <<>>])}

(***************************************************************************)
(* get_recommendations: all_recs is a dict, which keeps its keys in the    *)
(* order they were first inserted; it is held as the list of its values.   *)
(***************************************************************************)
has_key(all, id) == \E i \in DOMAIN all : all[i].id = id

get_item(all, id) == all[CHOOSE i \in DOMAIN all : all[i].id = id]

\* an insertion that never looks for the key
set_item_append(all, rec) == Append(all, rec)

\* all[rec['id']] = rec
set_item(all, rec) ==
    IF has_key(all, rec.id)
    THEN [i \in DOMAIN all |-> IF all[i].id = rec.id THEN rec ELSE all[i]]
    ELSE Append(all, rec)

\* {rec['id']: rec for rec in content_recs}
RECURSIVE from_content(_)
from_content(recs) ==
    IF recs = <<>> THEN <<>>
    ELSE set_item(from_content(SubSeq(recs, 1, Len(recs) - 1)), recs[Len(recs)])

\* a pass that also replaces on equal similarity (>= for >)
merge_cv_rec_on_tie(all, rec) ==
    IF ~has_key(all, rec.id) THEN set_item(all, rec)
    ELSE IF ~float_gt(get_item(all, rec.id).similarity, rec.similarity)
    THEN set_item(all, rec)
    ELSE all

\* a pass that never replaces
merge_cv_rec_keep(all, rec) ==
    IF ~has_key(all, rec.id) THEN set_item(all, rec) ELSE all

\* one pass of `for rec in cv_recs'
merge_cv_rec(all, rec) ==
    IF ~has_key(all, rec.id) THEN set_item(all, rec)
    ELSE IF float_gt(rec.similarity, get_item(all, rec.id).similarity)
    THEN set_item(all, rec)
    ELSE all

RECURSIVE merge_cv(_, _)
merge_cv(all, recs) ==
    IF recs = <<>> THEN all
    ELSE merge_cv(merge_cv_rec(all, Head(recs)), Tail(recs))

\* a pass that lets the greater similarity win, as for cv_recs
merge_collab_rec_greater(all, rec) ==
    IF ~has_key(all, rec.id) THEN set_item(all, rec)
    ELSE IF float_gt(rec.similarity, get_item(all, rec.id).similarity)
    THEN set_item(all, rec)
    ELSE all

\* one pass of `for rec in collab_recs'
merge_collab_rec(all, rec) ==
    IF ~has_key(all, rec.id) THEN set_item(all, rec) ELSE all

RECURSIVE merge_collab(_, _)
merge_collab(all, recs) ==
    IF recs = <<>> THEN all
    ELSE merge_collab(merge_collab_rec(all, Head(recs)), Tail(recs))

\* list(all_recs.values())
combine(content, cv, collab) ==
    merge_collab(merge_cv(from_content(content), cv), collab)

(***************************************************************************)
(* The operation: one call of get_recommendations(u), by a student of the  *)
(* users table.  The snapshot is read and never written.                   *)
(***************************************************************************)
students == {u \in DOMAIN users : users[u].role = "student"}

get_recommendations(u) ==
    LET content == content_based_recommendations(u)
        cv      == cv_based_recommendations(u)
    IN  \E collab \in collaborative_filtering(u) :
            /\ user_id'      = u
            /\ content_recs' = content
            /\ cv_recs'      = cv
            /\ collab_recs'  = collab
            /\ all_recs'     = combine(content, cv, collab)
            /\ UNCHANGED snapshot

Next == \E u \in students : get_recommendations(u)

(***************************************************************************)
(* Snapshots.  Init draws the tables from four bounded families; in each,  *)
(* student 1 is the one that may have a profile and a cv.                  *)
(***************************************************************************)
MaxLen      == 3   \* longest skill string of the tag family
MaxApps     == 3   \* longest application log of the peer family
MaxPostings == 7   \* catalogue length of the ranking family

\* a row of internships; odd ids belong to company 11, even ids to company
\* 12, whose users row is gone
internship_row(id, required, description) ==
    [id |-> id, company_id |-> 11 + ((id + 1) % 2), title |-> "Intern",
     description |-> description, required_skills |-> required,
     posted_at |-> id]

application_row(student_id, internship_id) ==
    [student_id |-> student_id, internship_id |-> internship_id]

profile_row(skills) == [skills |-> skills]

cv_row(certifications, work_experience, projects, education) ==
    [certifications |-> certifications, work_experience |-> work_experience,
     projects |-> projects, education |-> education]

NoRows == [x \in {} |-> x]

\* the users table: company 11 and the students 1..n
users_table(n) ==
    [id \in (1..n) \cup {11} |->
        IF id = 11 THEN [name |-> "TechCorp Inc", role |-> "company"]
        ELSE [name |-> "Student", role |-> "student"]]

\* no call made yet
NoCall ==
    /\ user_id = 0
    /\ content_recs = <<>> /\ cv_recs = <<>> /\ collab_recs = <<>>
    /\ all_recs = <<>>

\* every text of at most n characters over the alphabet
Texts(alphabet, n) == UNION {[1..k -> alphabet] : k \in 0..n}

TagAlphabet == {"a", "B", " ", ","}

SomeText == <<"x">>

\* "BSc degree", "Java developer", "AWS", "Python and React", "JavaScript"
EduText    == <<"B","S","c"," ","d","e","g","r","e","e">>
WorkText   == <<"J","a","v","a"," ","d","e","v","e","l","o","p","e","r">>
CertText   == <<"A","W","S">>
ProjText   == <<"P","y","t","h","o","n"," ","a","n","d"," ","R","e","a","c","t">>
ScriptText == <<"J","a","v","a","S","c","r","i","p","t">>

\* a cv that earns both bonuses and names no skill: "analyst", "PhD"
BonusCv == cv_row(None, <<"a","n","a","l","y","s","t">>, <<>>, <<"P","h","D">>)

\* required skills of which the skill "a" is 1 of 1, 1 of 2, and 1 of 5
RankRequired == { <<"a">>, <<"a", ",", "b">> }

FifthRequired == <<"a", ",", "b", ",", "c", ",", "d", ",", "e">>

\* Family 1, tags: every skill string up to MaxLen on one side, samples with
\* blank tokens and one of five tags on the other; with and without a cv
\* that earns both bonuses
TagSamples ==
    {None, <<>>, <<",">>, <<" ", ",", " ">>, <<"a", ",">>, <<"a", ",", "B">>,
     FifthRequired}

InitTags ==
    /\ \E p \in Texts(TagAlphabet, MaxLen) \cup {None}, r \in TagSamples,
          swap \in BOOLEAN :
          /\ profiles = 1 :> profile_row(IF swap THEN r ELSE p)
          /\ \E d \in {None, SomeText} :
                internships = <<internship_row(1, IF swap THEN p ELSE r, d)>>
    /\ cvs \in {NoRows, 1 :> BonusCv}
    /\ users = users_table(1)
    /\ applications = <<>>
    /\ NoCall

\* Family 2, merge: postings that several scorers find
MergeSkills ==
    { <<"p","y","t","h","o","n",","," ","s","q","l">>,
      <<"P","y","t","h","o","n">> }

MergeRequired ==
    { <<"p","y","t","h","o","n",","," ","j","a","v","a">>,
      <<"P","y","t","h","o","n">>,
      <<"p","y","t","h","o","n",","," ","r","e","a","c","t">> }

MergeCvs ==
    { cv_row(None, None, ProjText, None),
      cv_row(CertText, WorkText, <<>>, EduText),
      cv_row(ScriptText, None, None, EduText) }

MergeLogs ==
    { <<>>,
      <<application_row(1, 1), application_row(2, 1), application_row(2, 2)>>,
      <<application_row(1, 2), application_row(2, 2), application_row(2, 1)>> }

InitMerge ==
    /\ profiles \in {NoRows} \cup {1 :> profile_row(s) : s \in MergeSkills}
    /\ cvs \in {NoRows} \cup {1 :> c : c \in MergeCvs}
    /\ \E r1 \in MergeRequired, r2 \in MergeRequired, d \in {<<>>, SomeText} :
          internships =
              <<internship_row(1, r1, d), internship_row(2, r2, SomeText)>>
    /\ users = users_table(2)
    /\ applications \in MergeLogs
    /\ NoCall

\* Family 3, peers: every application log up to MaxApps over three students
\* and three postings, of which posting 3 has no internships row (a company's
\* internships are deleted with it, their applications are not), and a log
\* in which a peer applied to two postings the student has not
PeerPostings == {1, 2, 3}

PeerLog ==
    <<application_row(1, 1),
      application_row(2, 1), application_row(2, 2), application_row(2, 3)>>

\* four peers of student 1, of similarity 2/3, 1/4, 1/3 and 1/5; posting 3
\* has two of them and posting 9 no internships row
TopLog ==
    <<application_row(1, 1), application_row(1, 2),
      application_row(2, 1), application_row(2, 2), application_row(2, 3),
      application_row(3, 1), application_row(3, 3), application_row(3, 4),
      application_row(4, 1), application_row(4, 9),
      application_row(5, 2), application_row(5, 5), application_row(5, 6),
      application_row(5, 7)>>

InitPeers ==
    /\ profiles = NoRows /\ cvs = NoRows
    /\ \/ /\ users = users_table(3)
          /\ internships = [i \in 1..2 |-> internship_row(i, <<"a">>, SomeText)]
          /\ \E k \in 0..MaxApps :
                applications \in [1..k -> {application_row(s, i) :
                                             s \in 1..3, i \in PeerPostings}]
       \/ /\ users = users_table(3)
          /\ internships = [i \in 1..3 |-> internship_row(i, <<"a">>, SomeText)]
          /\ applications = PeerLog
       \/ /\ users = users_table(5)
          /\ internships = [i \in 1..7 |-> internship_row(i, <<"a">>, SomeText)]
          /\ applications = TopLog
    /\ NoCall

\* Family 4, ranking: MaxPostings postings whose similarity to the skill "a"
\* is 1 or 1/2, but for at most one of similarity 1/5, so that the scorers
\* find more than they return; and seven postings of which the peers of
\* student 1 applied to six
RankLog ==
    <<application_row(1, 1),
      application_row(2, 1), application_row(2, 2), application_row(2, 3),
      application_row(2, 4),
      application_row(3, 1), application_row(3, 5), application_row(3, 6),
      application_row(3, 7)>>

InitRank ==
    /\ profiles = 1 :> profile_row(<<"a">>)
    /\ cvs = 1 :> BonusCv
    /\ \/ /\ users = users_table(1)
          /\ \E required \in [1..MaxPostings -> RankRequired],
                fifth \in 0..MaxPostings :
                internships =
                    [i \in 1..MaxPostings |->
                        internship_row(i, IF i = fifth THEN FifthRequired
                                          ELSE required[i], SomeText)]
          /\ applications = <<>>
       \/ /\ users = users_table(3)
          /\ internships = [i \in 1..7 |-> internship_row(i, <<"a">>, SomeText)]
          /\ applications = RankLog
    /\ NoCall

\* Family 5, threshold: a cv naming no skill, one skill or three skills,
\* with no, one or both bonuses, against postings of twenty tags of which
\* the cv names one (Jaccard 1/20) or three (Jaccard 3/20)
LetterTags(n) ==
    [k \in 1..(2 * n) |-> IF k % 2 = 1 THEN "," ELSE LowerCase[k \div 2]]

OneSkillText == <<"P","y","t","h","o","n">>

ThreeSkillText ==
    <<"p","y","t","h","o","n"," ","j","a","v","a"," ","s","q","l">>

OneOfTwenty == <<"p","y","t","h","o","n">> \o LetterTags(19)

ThreeOfTwenty ==
    <<"p","y","t","h","o","n",",","j","a","v","a",",","s","q","l">>
        \o LetterTags(17)

InitThreshold ==
    /\ profiles = NoRows
    /\ \E projects \in {<<>>, OneSkillText, ThreeSkillText},
          work \in {None, <<"a","n","a","l","y","s","t">>},
          education \in {None, <<"P","h","D">>} :
          cvs = 1 :> cv_row(None, work, projects, education)
    /\ \E d \in {<<>>, SomeText} :
          internships = <<internship_row(1, OneOfTwenty, d),
                          internship_row(2, ThreeOfTwenty, SomeText)>>
    /\ users = users_table(1)
    /\ applications = <<>>
    /\ NoCall

Init == InitTags \/ InitMerge \/ InitPeers \/ InitRank \/ InitThreshold

Spec == Init /\ [][Next]_vars

(***************************************************************************)
(* Properties.  `called' marks the states a call has produced.             *)
(***************************************************************************)
called == user_id # 0

ids(recs) == {recs[i].id : i \in DOMAIN recs}

\* the records of a list that carry the posting id
with_id(recs, id) == {recs[i] : i \in {j \in DOMAIN recs : recs[j].id = id}}

\* C1: a posting found by both the Tag-Overlap and the Document-Signal scorer
\* is merged as the Document-Signal record exactly when that record's
\* similarity is strictly greater; otherwise the Tag-Overlap record is kept.
C1_CvReplacesOnlyWhenGreater ==
    called =>
        \A c \in Range(content_recs), v \in Range(cv_recs) :
            c.id = v.id =>
                IF float_gt(v.similarity, c.similarity)
                THEN with_id(all_recs, c.id) = {v}
                ELSE with_id(all_recs, c.id) = {c}

\* one call in which a posting was replaced by its greater Document-Signal
\* record and another posting, scored equal by both, kept its Tag-Overlap one
C1_Witness ==
    /\ called
    /\ \E c \in Range(content_recs), v \in Range(cv_recs) :
          /\ c.id = v.id /\ float_gt(v.similarity, c.similarity)
          /\ v \in Range(all_recs)
    /\ \E c \in Range(content_recs), v \in Range(cv_recs) :
          /\ c.id = v.id /\ v.similarity = c.similarity
          /\ c \in Range(all_recs)

\* C2: a posting found by the Tag-Overlap or the Document-Signal scorer is
\* merged with strategy tag 'Content-based' or 'CV-based', whatever the
\* Peer-Behavior scorer found for it.
C2_PeerNeverReplaces ==
    called =>
        \A r \in Range(all_recs) :
            r.id \in ids(content_recs) \cup ids(cv_recs) =>
                r.type \in {"Content-based", "CV-based"}

\* a call in which the Peer-Behavior record of a posting has the greater
\* similarity and the posting is merged under another strategy
C2_Witness ==
    /\ called
    /\ \E p \in Range(collab_recs), r \in Range(all_recs) :
          /\ p.id = r.id /\ r.type # "Collaborative"
          /\ float_gt(p.similarity, r.similarity)

\* C3: the returned list holds no posting id twice and holds exactly the
\* posting ids the three scorers returned.
C3_OneRecordPerPosting ==
    called =>
        /\ \A i, j \in DOMAIN all_recs :
              all_recs[i].id = all_recs[j].id => i = j
        /\ ids(all_recs) =
              ids(content_recs) \cup ids(cv_recs) \cup ids(collab_recs)

\* a call in which one posting was returned by all three scorers and another
\* by one of them only
C3_Witness ==
    /\ called
    /\ ids(content_recs) \cap ids(cv_recs) \cap ids(collab_recs) # {}
    /\ Cardinality(ids(all_recs)) >= 2
    /\ Len(content_recs) + Len(cv_recs) + Len(collab_recs) > Len(all_recs)

\* C4: each scorer returns at most 5 records and the returned list has at
\* most 15.
C4_SizeCaps ==
    called =>
        /\ Len(content_recs) <= 5 /\ Len(cv_recs) <= 5 /\ Len(collab_recs) <= 5
        /\ Len(all_recs) >= 0 /\ Len(all_recs) <= 15

\* a call in which each scorer found more than five postings and returned five
C4_Witness ==
    /\ called
    /\ Len(internships) > 5
    /\ Len(content_recs) = 5 /\ Len(cv_recs) = 5 /\ Len(collab_recs) = 5
    /\ Cardinality((UNION {user_items(s) : s \in students})
                       \ user_items(user_id)) > 5
    /\ Len(all_recs) > 5

has_tag(text) ==
    Truthy(text) /\ \E t \in Range(split(text)) : strip(t) # <<>>

\* C6: a posting whose required-skill string holds no non-blank token is
\* returned by neither tag-based scorer.
C6_NoTagsNeverRecommended ==
    called =>
        \A r \in Range(content_recs) \cup Range(cv_recs) :
            has_tag(r.required_skills)

\* C7: a student with no skill tag, no cv and no application is returned the
\* empty list.
C7_EmptySeekerGetsNothing ==
    ( /\ called
      /\ user_id \in DOMAIN profiles => ~has_tag(profiles[user_id].skills)
      /\ user_id \notin DOMAIN cvs
      /\ user_items(user_id) = {} )
    => all_recs = <<>>

\* C8 as stated: the merged record of a posting has the highest similarity
\* among all the scorers' records for it, Peer-Behavior included.
C8_HighestOfAllMerged ==
    called =>
        \A r \in Range(all_recs) :
            \A x \in with_id(content_recs, r.id) \cup with_id(cv_recs, r.id)
                       \cup with_id(collab_recs, r.id) :
                ~float_gt(x.similarity, r.similarity)

\* C8 as amended: the merged record of a posting that the Tag-Overlap or the
\* Document-Signal scorer found is the one of highest similarity among those
\* two scorers' records for it, the Tag-Overlap one when they are equal; a
\* Peer-Behavior record is merged only for a posting neither of them found.
C8_HighestSkillFitMerged ==
    called =>
        \A r \in Range(all_recs) :
            LET fit == with_id(content_recs, r.id) \cup with_id(cv_recs, r.id)
            IN  /\ fit # {} => r \in fit
                /\ \A x \in fit : ~float_gt(x.similarity, r.similarity)
                /\ \A x \in fit :
                      x.similarity = r.similarity /\ x.type = "Content-based"
                          => r = x
                /\ r.type = "Collaborative" => fit = {}

\* a call in which a posting was found by all three scorers, its
\* Peer-Behavior record has the highest similarity, and its Document-Signal
\* record, greater than the Tag-Overlap one, is merged
C8_Witness ==
    /\ called
    /\ \E c \in Range(content_recs), v \in Range(cv_recs),
          p \in Range(collab_recs) :
          /\ c.id = v.id /\ v.id = p.id
          /\ float_gt(v.similarity, c.similarity)
          /\ float_gt(p.similarity, v.similarity)
          /\ v \in Range(all_recs)

\* C9: a student with no application is returned no Peer-Behavior record.
C9_NoApplicationsNoPeers ==
    (called /\ user_items(user_id) = {}) => collab_recs = <<>>

\* a call for a student with no application while another student applied
\* to a posting of the catalogue
C9_Witness ==
    /\ called
    /\ user_items(user_id) = {}
    /\ \E a \in Range(applications) :
          a.student_id # user_id /\ fetch_internship(a.internship_id) # <<>>

\* the Tag-Overlap ranking in exact arithmetic: for the i-th posting with
\* non-empty required tags R, the triple <<i, |S n R|, |S u R|>>
tag_scores ==
    LET S == skill_set(profiles[user_id].skills)
    IN  {<<i, Cardinality(S \cap required_skills(internships[i])),
              Cardinality(S \cup required_skills(internships[i]))>> :
           i \in {j \in DOMAIN internships :
                    required_skills(internships[j]) # {}}}

\* the postings above the threshold: 5 * |S n R| > |S u R|
above(scores) == {t \in scores : 5 * t[2] > t[3]}

\* posting s is listed before posting t: greater similarity, or equal
\* similarity and earlier in the catalogue
before(s, t) ==
    \/ s[2] * t[3] > t[2] * s[3]
    \/ s[2] * t[3] = t[2] * s[3] /\ s[1] < t[1]

\* C10: for a student whose skill string parses to a non-empty set S, the
\* Tag-Overlap scorer returns the first 5 of the postings with non-empty R
\* and |S n R| / |S u R| > 0.2, by descending similarity, equal
\* similarities in catalogue order.
C10_ContentTopFive ==
    (called /\ user_id \in DOMAIN profiles /\ Truthy(profiles[user_id].skills))
    =>
        LET qualifying == above(tag_scores)
        IN  /\ Len(content_recs) =
                  IF Cardinality(qualifying) < 5 THEN Cardinality(qualifying)
                  ELSE 5
            /\ \A k \in DOMAIN content_recs :
                  \E t \in qualifying :
                      /\ Cardinality({s \in qualifying : before(s, t)}) = k - 1
                      /\ content_recs[k].id = internships[t[1]].id
                      /\ content_recs[k].type = "Content-based"

\* a call in which more than five postings are above the threshold, one has
\* similarity exactly 1/5, two returned postings have equal similarity and
\* a returned posting comes later in the catalogue than one it outranks
C10_Witness ==
    /\ called /\ user_id \in DOMAIN profiles /\ Truthy(profiles[user_id].skills)
    /\ LET qualifying == above(tag_scores)
       IN  /\ Cardinality(qualifying) > 5
           /\ \E t \in tag_scores : 5 * t[2] = t[3]
           /\ \E s, t \in qualifying :
                 /\ s[1] < t[1] /\ s[2] * t[3] = t[2] * s[3]
                 /\ {internships[s[1]].id, internships[t[1]].id}
                        \subseteq ids(content_recs)
           /\ \E s, t \in qualifying :
                 /\ s[1] < t[1] /\ t[2] * s[3] > s[2] * t[3]
                 /\ internships[t[1]].id \in ids(content_recs)

\* the Document-Signal total in exact arithmetic: for the i-th posting with
\* non-empty required tags R and the cv's skills D, the tuple
\* <<i, |D n R|, |D u R|, number of bonuses>>, |D n R| taken as 0 for empty D
cv_scores ==
    LET cv == cvs[user_id]
        D  == cv_skills(cv)
    IN  {<<i,
           IF D = {} THEN 0
           ELSE Cardinality(D \cap required_skills(internships[i])),
           Cardinality(D \cup required_skills(internships[i])),
           (IF IsZero(education_bonus(cv, internships[i])) THEN 0 ELSE 1)
               + (IF IsZero(experience_bonus(cv, internships[i])) THEN 0 ELSE 1)>> :
           i \in {j \in DOMAIN internships :
                    required_skills(internships[j]) # {}}}

\* total > 0.15 for total = n/u + b/10:  20n + 2bu > 3u
over_threshold(scores) ==
    {t \in scores : 20 * t[2] + 2 * t[4] * t[3] > 3 * t[3]}

\* C11: the Document-Signal scorer keeps a posting with non-empty required
\* tags exactly when Jaccard(D, R) + education_bonus + experience_bonus is
\* greater than 0.15, a total of exactly 0.15 (3/20 with no bonus, 1/20 with
\* one bonus) being excluded; the kept postings, up to five, are returned.
C11_CvKeptIffOverThreshold ==
    (called /\ user_id \in DOMAIN cvs) =>
        LET kept == {internships[t[1]].id : t \in over_threshold(cv_scores)}
        IN  /\ ids(cv_recs) \subseteq kept
            /\ Len(cv_recs) =
                  IF Cardinality(kept) < 5 THEN Cardinality(kept) ELSE 5

\* the peers in exact arithmetic: for every other student s with an
\* application set A of positive similarity to the caller's set C, the
\* triple <<s, |C n A|, |C u A|>>
peer_scores ==
    LET C == user_items(user_id)
    IN  {t \in {<<s, Cardinality(C \cap user_items(s)),
                     Cardinality(C \cup user_items(s))>> :
                   s \in {a.student_id : a \in Range(applications)} \ {user_id}} :
           t[2] > 0}

\* peer t is more similar to the caller than peer s
closer(t, s) == t[2] * s[3] > s[2] * t[3]

\* the peers that may be among the three most similar, and those that are
\* among them however equal similarities are ordered
top_peers(scores) ==
    {s \in scores : Cardinality({t \in scores : closer(t, s)}) < 3}

sure_peers(scores) ==
    {s \in scores : Cardinality({t \in scores \ {s} : ~closer(s, t)}) < 3}

in_catalogue(id) == \E i \in DOMAIN internships : internships[i].id = id

\* C12: the Peer-Behavior list holds no posting the caller applied to and no
\* posting id twice; every record is a catalogue posting that one of the
\* three most similar peers (of positive similarity) applied to, and carries
\* the similarity of the most similar of the peers that applied to it; and
\* short of the cap of five, every such posting is in the list.
C12_PeerListSeenOnce ==
    called =>
        /\ \A i, j \in DOMAIN collab_recs :
              collab_recs[i].id = collab_recs[j].id => i = j
        /\ \A r \in Range(collab_recs) :
              /\ r.id \notin user_items(user_id)
              /\ in_catalogue(r.id)
              /\ r.type = "Collaborative"
              /\ LET from == {s \in top_peers(peer_scores) :
                                r.id \in user_items(s[1])}
                 IN  \E s \in from :
                        /\ \A t \in from : ~closer(t, s)
                        /\ r.similarity = float_div(s[2], s[3])
        /\ Len(collab_recs) < 5 =>
              \A s \in sure_peers(peer_scores) :
                  \A id \in user_items(s[1]) \ user_items(user_id) :
                      in_catalogue(id) => id \in ids(collab_recs)

\* a call with more than three peers, in which a returned posting has two of
\* the three most similar peers, of different similarity, a peer applied to
\* a posting the caller applied to and to one the catalogue lacks, and a
\* fourth peer's catalogue posting is not returned
C12_Witness ==
    /\ called
    /\ Cardinality(peer_scores) > 3
    /\ \E r \in Range(collab_recs) :
          \E s, t \in top_peers(peer_scores) :
              /\ closer(t, s)
              /\ r.id \in user_items(s[1]) \cap user_items(t[1])
              /\ r.similarity = float_div(t[2], t[3])
    /\ \E s \in top_peers(peer_scores) :
          /\ user_items(s[1]) \cap user_items(user_id) # {}
          /\ \E id \in user_items(s[1]) : ~in_catalogue(id)
    /\ \E s \in peer_scores \ top_peers(peer_scores) :
          \E id \in user_items(s[1]) \ user_items(user_id) :
              in_catalogue(id) /\ id \notin ids(collab_recs)

=============================================================================
